---- MODULE Spec2Model ----
(***************************************************************************)
(* Account-authentication backend: registration, Google sign-in and the    *)
(* email-verification-code lifecycle (issue, consume, expire).             *)
(*                                                                         *)
(* Two specifications share the store statements defined below:            *)
(*   Spec      every handler call runs to completion as one step and the   *)
(*             clock advances only between calls;                          *)
(*   SpecConc  handlers of several requests interleave at their store      *)
(*             round-trips (every await is one step).                      *)
(* Time is counted in minutes since the start of the run.                  *)
(***************************************************************************)
EXTENDS Integers, Sequences, FiniteSets

VARIABLES
    users,          \* rows of the users table
    codes,          \* rows of the email_verification table
    nextUserId,     \* serial of users.id
    nextCodeId,     \* serial of email_verification.id
    now,            \* the wall clock, in minutes
    calls,          \* number of requests served so far
    last,           \* the most recent completed whole call and its response
    consumed,       \* emails for which verifyEmail has returned Verified
    spent,          \* <<email, code>> pairs verifyEmail has returned Verified
                    \* for, with no later send or registration for the email
    pc,             \* SpecConc: position of every request
    loc             \* SpecConc: local variables of every request

vars == <<users, codes, nextUserId, nextCodeId, now, calls, last, consumed, spent, pc, loc>>

(***************************************************************************)
(* Bounds of the model.                                                    *)
(***************************************************************************)
MaxCalls == 3
MaxRequests == 3
MaxSeqCalls == 5

(***************************************************************************)
(* Inputs.                                                                 *)
(***************************************************************************)
NULL == "NULL"
Emails == {"a@x.com", "A@x.com"}
GoogleIds == {"g1"}
FirstNames == {"Ann"}
LastNames == {"Lee"}
GoogleFirstNames == {"Gil"}
GoogleLastNames == {"Roy"}
Passwords == {"Passw0rd"}
PhoneNumbers == {NULL}
\* email_verified: z.boolean().optional()
AssertedFlags == {"true", "false", "undefined"}

\* Samples of Math.floor(Math.random() * 900000), which ranges over 0..899999.
RandomSamples == {0, 899999}

(***************************************************************************)
(* Clock.                                                                  *)
(***************************************************************************)
\* send_verification_code.ts: new Date(Date.now() + 15 * 60 * 1000), in minutes
SendWindow == 15
\* registerUser: expiresAt.setHours(expiresAt.getHours() + 24), in minutes
RegisterWindow == 24 * 60

\* Date.prototype.setHours works on the local wall clock: the result is the
\* instant that reads the same local time one day on.  It lies 24 hours
\* after the call unless the zone's UTC offset changes in between, and then
\* it lies an hour less or an hour more after it.  ZoneShifts are the offset
\* changes, in minutes, that can fall into the day after a call.
ZoneShifts == {0 - 60, 0, 60}
\* A zone whose offset does not change during the run.
SteadyZone == {0}

SetHoursPlus24(t, shift) == t + RegisterWindow + shift
\* Clock readings the run passes through: inside a window, exactly at its end
\* and past it, for both windows.
Instants ==
    {0, 1, SendWindow, SendWindow + 1, RegisterWindow, RegisterWindow + 1}

(***************************************************************************)
(* Code generation: Math.floor(100000 + Math.random() * 900000).toString() *)
(***************************************************************************)
RECURSIVE ToString(_)
ToString(n) == IF n < 10 THEN <<n>> ELSE Append(ToString(n \div 10), n % 10)

\* Mutant: Math.floor(Math.random() * 1000000).toString(), without padding.
GenerateCode_FromZero(r) == ToString(r)

GenerateCode(r) == ToString(100000 + r)

(***************************************************************************)
(* checkEmailAvailability works on the characters of the address, so for   *)
(* it an address is a sequence of characters.                              *)
(***************************************************************************)
\* String.prototype.split(separator): the pieces between the separators.
RECURSIVE Split(_, _)
Split(s, sep) ==
    IF \E i \in 1..Len(s) : s[i] = sep
    THEN LET i == CHOOSE k \in 1..Len(s) :
                      s[k] = sep /\ \A j \in 1..(k - 1) : s[j] # sep
         IN  <<SubSeq(s, 1, i - 1)>> \o Split(SubSeq(s, i + 1, Len(s)), sep)
    ELSE <<s>>

\* z.string().email(): one "@" after a non-empty local part, then
\* dot-separated non-empty labels, the last of at least two characters.
IsEmail(s) ==
    LET parts == Split(s, "@")
    IN  /\ Len(parts) = 2
        /\ parts[1] # <<>>
        /\ LET labels == Split(parts[2], ".")
           IN  /\ Len(labels) >= 2
               /\ \A i \in 1..Len(labels) : labels[i] # <<>>
               /\ Len(labels[Len(labels)]) >= 2

\* The strings submitted to checkEmail; those that are not addresses are
\* rejected by the input schema before the handler runs.
SubmittedEmails ==
    {<<"j", "o", "@", "x", ".", "i", "o">>,
     <<"J", "o", "@", "x", ".", "i", "o">>,
     <<"j", ".", "o", "@", "m", ".", "x", ".", "i", "o">>,
     <<"j", "@", "o", "@", "x", ".", "i", "o">>,
     <<"j", "o", "@", "x">>}
AvailEmails == {s \in SubmittedEmails : IsEmail(s)}

\* The calendar years new Date().getFullYear() returns during the run.
Years == {2025, 2026}

\* `${currentYear}`: the decimal digits of the number, as characters.
DigitChars == <<"0", "1", "2", "3", "4", "5", "6", "7", "8", "9">>
NumberToString(n) == [i \in 1..Len(ToString(n)) |-> DigitChars[ToString(n)[i] + 1]]

\* Mutant: the first two suggestions change places.
Suggestions_Swapped(email, currentYear) ==
    LET emailParts == Split(email, "@")
        localPart == emailParts[1]
        domain == emailParts[2]
    IN  <<localPart \o <<"_">> \o NumberToString(currentYear) \o <<"@">> \o domain,
          localPart \o <<".">> \o NumberToString(currentYear) \o <<"@">> \o domain,
          localPart \o <<".", "u", "s", "e", "r", "@">> \o domain,
          localPart \o <<"1", "2", "3", "@">> \o domain,
          localPart \o <<"_", "o", "f", "f", "i", "c", "i", "a", "l", "@">> \o domain>>

\* const emailParts = input.email.split('@'); localPart = emailParts[0];
\* domain = emailParts[1]; the five template strings
Suggestions(email, currentYear) ==
    LET emailParts == Split(email, "@")
        localPart == emailParts[1]
        domain == emailParts[2]
    IN  <<localPart \o <<".">> \o NumberToString(currentYear) \o <<"@">> \o domain,
          localPart \o <<"_">> \o NumberToString(currentYear) \o <<"@">> \o domain,
          localPart \o <<".", "u", "s", "e", "r", "@">> \o domain,
          localPart \o <<"1", "2", "3", "@">> \o domain,
          localPart \o <<"_", "o", "f", "f", "i", "c", "i", "a", "l", "@">> \o domain>>

GeneratedCodes == {GenerateCode(r) : r \in RandomSamples}
\* verification_code inputs: z.string().min(6).max(6)
InputCodes == GeneratedCodes \cup {<<0, 0, 0, 0, 0, 0>>}

\* Inputs and clock readings of SpecConc: the requests race on one email.
ConcEmails == {"a@x.com"}
ConcRandomSamples == {0}
ConcCodes == {GenerateCode(r) : r \in ConcRandomSamples} \cup {<<0, 0, 0, 0, 0, 0>>}
ConcFlags == {"false", "undefined"}
ConcInstants == {0, SendWindow + 1, RegisterWindow + 1}

(***************************************************************************)
(* Store statements (each is atomic in the store).                         *)
(***************************************************************************)
\* Mutant: the comparison ignores the case of the email.
Lower(email) == IF email = "A@x.com" THEN "a@x.com" ELSE email
SelectUsersByEmail_IgnoreCase(U, email) ==
    {u \in U : Lower(u.email) = Lower(email)}

\* db.select().from(usersTable).where(eq(usersTable.email, email))
SelectUsersByEmail(U, email) == {u \in U : u.email = email}

\* Mutant: the unique constraint on users.email is not enforced.
ViolatesUniqueEmail_NotEnforced(U, email) == FALSE

\* users.email: varchar('email', { length: 255 }).notNull().unique()
ViolatesUniqueEmail(U, email) == \E u \in U : u.email = email

\* db.select().from(usersTable).where(or(eq(google_id, gid), eq(email, email)))
SelectUsersByGoogleIdOrEmail(U, gid, email) ==
    {u \in U : u.google_id = gid \/ u.email = email}
\* Mutant: the sweep of expired rows is skipped.
DeleteExpiredCodes_Skipped(C, email, t) == C

\* Mutant: the sweep takes the expired rows of every email.
DeleteExpiredCodes_AllEmails(C, email, t) ==
    {c \in C : ~(c.expires_at < t)}

\* Mutant: the sweep also takes the rows expiring at the instant of the call.
DeleteExpiredCodes_Inclusive(C, email, t) ==
    {c \in C : ~(c.email = email /\ c.expires_at <= t)}

\* db.delete(emailVerificationTable).where(and(eq(email), lt(expires_at, now)))
DeleteExpiredCodes(C, email, t) ==
    {c \in C : ~(c.email = email /\ c.expires_at < t)}
\* Mutant: the live-code query compares the expiry the wrong way round.
SelectLiveCodes_Reversed(C, email, t) ==
    {c \in C : c.email = email /\ c.expires_at < t}

\* db.select().from(emailVerificationTable).where(and(eq(email), gt(expires_at, now)))
SelectLiveCodes(C, email, t) ==
    {c \in C : c.email = email /\ c.expires_at > t}
\* Mutant: the lookup matches on the code alone.
SelectCodes_AnyEmail(C, email, code) ==
    {c \in C : c.verification_code = code}

\* Mutant: the lookup matches on the email alone.
SelectCodes_AnyCode(C, email, code) ==
    {c \in C : c.email = email}

\* db.select().from(emailVerificationTable)
\*   .where(and(eq(email), eq(verification_code, code)))
SelectCodes(C, email, code) ==
    {c \in C : c.email = email /\ c.verification_code = code}

\* Mutant: the delete removes no row.
DeleteCodeById_Nothing(C, id) == C

\* db.delete(emailVerificationTable).where(eq(emailVerificationTable.id, id))
DeleteCodeById(C, id) == {c \in C : c.id # id}

\* Mutant: the insert replaces the rows already stored for the email.
InsertCode_Replacing(C, id, email, code, expires, t) ==
    {c \in C : c.email # email}
        \cup {[id |-> id, email |-> email, verification_code |-> code,
                expires_at |-> expires, created_at |-> t]}

\* db.insert(emailVerificationTable).values({email, verification_code, expires_at})
InsertCode(C, id, email, code, expires, t) ==
    C \cup {[id |-> id, email |-> email, verification_code |-> code,
             expires_at |-> expires, created_at |-> t]}
\* Mutant: the already-verified check is dropped.
RegisteredAndVerified_Dropped(existingUsers) == FALSE

\* Mutant: the check is inverted: an unverified account rejects the request.
RegisteredAndVerified_Inverted(existingUsers) ==
    \E u \in existingUsers : ~u.is_email_verified

\* Mutant: any account for the email, verified or not, rejects the request.
RegisteredAndVerified_AnyAccount(existingUsers) == existingUsers # {}

\* existingUsers.length > 0 && existingUsers[0].is_email_verified
\* (users.email is unique, so existingUsers holds at most one row)
RegisteredAndVerified(existingUsers) ==
    \E u \in existingUsers : u.is_email_verified
\* Mutant: the expiry check never fires.
IsExpired_Never(row, t) == FALSE

\* verificationRecord.expires_at < now
IsExpired(row, t) == row.expires_at < t
\* Mutant: the update refreshes the timestamp but not the flag.
UpdateUserVerified_TimestampOnly(U, email, t) ==
    {IF u.email = email THEN [u EXCEPT !.updated_at = t] ELSE u : u \in U}

\* db.update(usersTable).set({is_email_verified: true, updated_at: now})
\*   .where(eq(usersTable.email, email))
UpdateUserVerified(U, email, t) ==
    {IF u.email = email
        THEN [u EXCEPT !.is_email_verified = TRUE, !.updated_at = t]
        ELSE u : u \in U}
\* Mutant: the affected-row count is taken to be non-zero.
RowCount_AlwaysOne(U, email) == 1

\* updateResult.rowCount
RowCount(U, email) == Cardinality(SelectUsersByEmail(U, email))

\* Mutant: input.email_verified || true, which turns an asserted false into true.
AssertedOrTrue_Or(flag) == TRUE

\* input.email_verified ?? true
AssertedOrTrue(flag) == IF flag = "undefined" THEN TRUE ELSE flag = "true"

\* `hashed_${input.password}`
PasswordHash(password) == "hashed_" \o password

\* Mutant: the new account is stored as already verified.
NewPasswordUser_Verified(id, email, first, lastn, password, phone, t) ==
    [id |-> id, email |-> email, first_name |-> first, last_name |-> lastn,
     password_hash |-> PasswordHash(password), google_id |-> NULL,
     phone_number |-> phone, is_email_verified |-> TRUE,
     created_at |-> t, updated_at |-> t]

\* db.insert(usersTable).values({... password_hash, is_email_verified: false})
NewPasswordUser(id, email, first, lastn, password, phone, t) ==
    [id |-> id, email |-> email, first_name |-> first, last_name |-> lastn,
     password_hash |-> PasswordHash(password), google_id |-> NULL,
     phone_number |-> phone, is_email_verified |-> FALSE,
     created_at |-> t, updated_at |-> t]

\* Mutant: the external identifier is not stored with the new account.
NewGoogleUser_NoGoogleId(id, email, first, lastn, gid, flag, t) ==
    [id |-> id, email |-> email, first_name |-> first, last_name |-> lastn,
     password_hash |-> NULL, google_id |-> NULL,
     phone_number |-> NULL, is_email_verified |-> flag,
     created_at |-> t, updated_at |-> t]

\* db.insert(usersTable).values({... google_id, password_hash: null})
NewGoogleUser(id, email, first, lastn, gid, flag, t) ==
    [id |-> id, email |-> email, first_name |-> first, last_name |-> lastn,
     password_hash |-> NULL, google_id |-> gid,
     phone_number |-> NULL, is_email_verified |-> flag,
     created_at |-> t, updated_at |-> t]

\* Mutant: the update also clears the password digest.
UpdateGoogleUser_ClearsPassword(U, id, gid, first, lastn, flag, t) ==
    {IF u.id = id
        THEN [u EXCEPT !.google_id = gid, !.first_name = first,
                       !.last_name = lastn, !.is_email_verified = flag,
                       !.updated_at = t, !.password_hash = NULL]
        ELSE u : u \in U}

\* db.update(usersTable).set({google_id, first_name, last_name,
\*   is_email_verified, updated_at}).where(eq(usersTable.id, id))
UpdateGoogleUser(U, id, gid, first, lastn, flag, t) ==
    {IF u.id = id
        THEN [u EXCEPT !.google_id = gid, !.first_name = first,
                       !.last_name = lastn, !.is_email_verified = flag,
                       !.updated_at = t]
        ELSE u : u \in U}

(***************************************************************************)
(* Result messages.                                                        *)
(***************************************************************************)
AlreadyVerified == "This email is already registered and verified. Please sign in instead."
AlreadyPending == "A verification code was already sent recently. Please check your email or wait before requesting a new code."
Issued == "Verification code sent to your email. Please check your inbox."
InvalidCode == "Invalid verification code. Please check your email and try again."
Expired == "Verification code has expired. Please request a new code."
AccountMissing == "User account not found. Please contact support."
Verified == "Email successfully verified!"
EmailTaken == "Email is already registered"
NoMessage == ""

\* What the caller of a handler gets back: a {success, message} object
\* (sendVerificationCode, verifyEmail), an AuthResponse, or a thrown Error
\* (success = FALSE with the Error's message).
NoUser == [id |-> 0]
NoToken == <<>>

NoCall ==
    [op |-> "none", email |-> "", success |-> FALSE, message |-> NoMessage,
     is_new_user |-> FALSE, user |-> NoUser, token |-> NoToken]

Response(op, email, success, message, isNew) ==
    [op |-> op, email |-> email, success |-> success, message |-> message,
     is_new_user |-> isNew, user |-> NoUser, token |-> NoToken]

\* registerUser: const userResponse = {id, email, first_name, last_name,
\*   google_id, phone_number, is_email_verified, created_at, updated_at}
UserResponse(newUser) ==
    [id |-> newUser.id, email |-> newUser.email,
     first_name |-> newUser.first_name, last_name |-> newUser.last_name,
     google_id |-> newUser.google_id, phone_number |-> newUser.phone_number,
     is_email_verified |-> newUser.is_email_verified,
     created_at |-> newUser.created_at, updated_at |-> newUser.updated_at]

\* Mutant: the stored row is returned as it is.
UserWithoutPassword_WholeRow(user) == user

\* googleSignIn: const { password_hash, ...userWithoutPassword } = user
UserWithoutPassword(user) ==
    [f \in DOMAIN user \ {"password_hash"} |-> user[f]]

\* registerUser: `jwt_token_${newUser.id}_${Date.now()}`
RegisterToken(id, t) == <<"jwt_token", id, t>>

\* googleSignIn: `jwt_${user.id}_${Date.now()}`
GoogleToken(id, t) == <<"jwt", id, t>>

\* The AuthResponse {user, token, is_new_user} of a successful sign-up or sign-in.
AuthResponse(op, email, user, token, isNew) ==
    [op |-> op, email |-> email, success |-> TRUE, message |-> NoMessage,
     is_new_user |-> isNew, user |-> user, token |-> token]

Procs == {1, 2}
IdleLoc == [op |-> "none", returned |-> FALSE]

Init ==
    /\ users = {}
    /\ codes = {}
    /\ nextUserId = 1
    /\ nextCodeId = 1
    /\ now = 0
    /\ calls = 0
    /\ last = NoCall
    /\ consumed = {}
    /\ spent = {}
    /\ pc = [p \in Procs |-> "idle"]
    /\ loc = [p \in Procs |-> IdleLoc]

\* The clock advances.
Tick ==
    /\ \E t \in Instants : t > now /\ now' = t
    /\ UNCHANGED <<users, codes, nextUserId, nextCodeId, calls, last, consumed, spent, pc, loc>>

\* Bookkeeping of a completed whole call.
CompletedWith(call, code) ==
    /\ calls < MaxCalls
    /\ calls' = calls + 1
    /\ last' = call
    /\ consumed' = IF call.op = "verify" /\ call.message = Verified
                   THEN consumed \cup {call.email}
                   ELSE consumed
    /\ spent' = IF call.op = "verify" /\ call.message = Verified
                THEN spent \cup {<<call.email, code>>}
                ELSE IF call.op \in {"send", "register"}
                     THEN {x \in spent : x[1] # call.email}
                     ELSE spent
    /\ UNCHANGED <<now, pc, loc>>

Completed(call) == CompletedWith(call, <<>>)

(***************************************************************************)
(* sendVerificationCode as one whole call.                                 *)
(***************************************************************************)
SendVerificationCode(email, r) ==
    LET existingUsers == SelectUsersByEmail(users, email)
        swept == DeleteExpiredCodes(codes, email, now)
        existingCodes == SelectLiveCodes(swept, email, now)
    IN  \/ /\ RegisteredAndVerified(existingUsers)
           /\ UNCHANGED <<users, codes, nextUserId, nextCodeId>>
           /\ Completed(Response("send", email, FALSE, AlreadyVerified, FALSE))
        \/ /\ ~RegisteredAndVerified(existingUsers)
           /\ existingCodes # {}
           /\ codes' = swept
           /\ UNCHANGED <<users, nextUserId, nextCodeId>>
           /\ Completed(Response("send", email, FALSE, AlreadyPending, FALSE))
        \/ /\ ~RegisteredAndVerified(existingUsers)
           /\ existingCodes = {}
           /\ codes' = InsertCode(swept, nextCodeId, email, GenerateCode(r),
                                  now + SendWindow, now)
           /\ nextCodeId' = nextCodeId + 1
           /\ UNCHANGED <<users, nextUserId>>
           /\ Completed(Response("send", email, TRUE, Issued, FALSE))

(***************************************************************************)
(* verifyEmail as one whole call.  verificationRecords[0] is the first     *)
(* matching row in store-defined order: any of the matching rows.          *)
(***************************************************************************)
VerifyEmail(email, code) ==
    LET verificationRecords == SelectCodes(codes, email, code)
    IN  \/ /\ verificationRecords = {}
           /\ UNCHANGED <<users, codes, nextUserId, nextCodeId>>
           /\ Completed(Response("verify", email, FALSE, InvalidCode, FALSE))
        \/ \E verificationRecord \in verificationRecords :
              IF IsExpired(verificationRecord, now)
              THEN /\ codes' = DeleteCodeById(codes, verificationRecord.id)
                   /\ UNCHANGED <<users, nextUserId, nextCodeId>>
                   /\ Completed(Response("verify", email, FALSE, Expired, FALSE))
              ELSE /\ users' = UpdateUserVerified(users, email, now)
                   /\ UNCHANGED <<nextUserId, nextCodeId>>
                   /\ IF RowCount(users, email) = 0
                      THEN /\ UNCHANGED codes
                           /\ Completed(Response("verify", email, FALSE, AccountMissing, FALSE))
                      ELSE /\ codes' = DeleteCodeById(codes, verificationRecord.id)
                           /\ CompletedWith(Response("verify", email, TRUE, Verified,
                                                     FALSE), code)

(***************************************************************************)
(* registerUser as one whole call.  A failed call throws; its message is   *)
(* the message of the Error.                                               *)
(***************************************************************************)
RegisterUser(email, first, lastn, password, phone, r, shift) ==
    LET existingUsers == SelectUsersByEmail(users, email)
    IN  \/ /\ existingUsers # {}
           /\ UNCHANGED <<users, codes, nextUserId, nextCodeId>>
           /\ Completed(Response("register", email, FALSE, EmailTaken, FALSE))
        \/ /\ existingUsers = {}
           /\ users' = users \cup {NewPasswordUser(nextUserId, email, first, lastn,
                                                   password, phone, now)}
           /\ nextUserId' = nextUserId + 1
           /\ codes' = InsertCode(codes, nextCodeId, email, GenerateCode(r),
                                  SetHoursPlus24(now, shift), now)
           /\ nextCodeId' = nextCodeId + 1
           /\ Completed(AuthResponse("register", email,
                   UserResponse(NewPasswordUser(nextUserId, email, first, lastn,
                                                password, phone, now)),
                   RegisterToken(nextUserId, now), TRUE))

(***************************************************************************)
(* googleSignIn as one whole call.  existingUsers[0] is any matching row.  *)
(***************************************************************************)
GoogleSignIn(gid, email, first, lastn, flag) ==
    LET existingUsers == SelectUsersByGoogleIdOrEmail(users, gid, email)
    IN  \/ /\ \E existingUser \in existingUsers :
                /\ users' = UpdateGoogleUser(users, existingUser.id, gid, first,
                                             lastn, AssertedOrTrue(flag), now)
                /\ \E user \in users' :
                      /\ user.id = existingUser.id
                      /\ Completed(AuthResponse("google", email,
                                                UserWithoutPassword(user),
                                                GoogleToken(user.id, now), FALSE))
           /\ UNCHANGED <<codes, nextUserId, nextCodeId>>
        \/ /\ existingUsers = {}
           /\ users' = users \cup {NewGoogleUser(nextUserId, email, first, lastn,
                                                 gid, AssertedOrTrue(flag), now)}
           /\ nextUserId' = nextUserId + 1
           /\ UNCHANGED <<codes, nextCodeId>>
           /\ Completed(AuthResponse("google", email,
                   UserWithoutPassword(NewGoogleUser(nextUserId, email, first, lastn,
                                                     gid, AssertedOrTrue(flag), now)),
                   GoogleToken(nextUserId, now), TRUE))

(***************************************************************************)
(* checkEmailAvailability as one call: a read of the accounts; the         *)
(* suggestions are built only when the address is taken, and the response  *)
(* for a free address has no suggestions field.                            *)
(***************************************************************************)
CheckEmailAvailability(email, currentYear) ==
    LET existingUsers == SelectUsersByEmail(users, email)
    IN  /\ IF existingUsers # {}
           THEN Completed([op |-> "check", email |-> email, available |-> FALSE,
                           suggestions |-> Suggestions(email, currentYear)])
           ELSE Completed([op |-> "check", email |-> email, available |-> TRUE])
        /\ UNCHANGED <<users, codes, nextUserId, nextCodeId>>

(***************************************************************************)
(* Vocabulary of the properties, written out independently of the store    *)
(* statements above.                                                       *)
(***************************************************************************)
RowsFor(C, e) == {c \in C : c.email = e}
LiveRowsFor(C, e, t) == {c \in C : c.email = e /\ c.expires_at > t}
MatchingRows(C, e, code) == {c \in C : c.email = e /\ c.verification_code = code}
AccountsFor(U, e) == {u \in U : u.email = e}
HasVerifiedAccount(U, e) == \E u \in U : u.email = e /\ u.is_email_verified
HasUnverifiedAccount(U, e) == \E u \in U : u.email = e /\ ~u.is_email_verified
\* The row inserted by the most recent insert into email_verification.
NewestRow == {c \in codes : c.id = nextCodeId - 1}

\* C1: after any sequence of whole calls and clock advances, every email has
\* at most one live verification row (expiry strictly after the current time).
C1_AtMostOneLiveCode ==
    \A e \in Emails : Cardinality(LiveRowsFor(codes, e, now)) <= 1

\* C2: sendVerificationCode(E) for an email with a verified account returns
\* the AlreadyVerified failure and leaves both tables as they were.
C2_VerifiedRejected ==
    [][\A e \in Emails, r \in RandomSamples :
          (SendVerificationCode(e, r) /\ HasVerifiedAccount(users, e))
          => /\ last'.success = FALSE
             /\ last'.message = AlreadyVerified
             /\ users' = users
             /\ codes' = codes]_vars

C2_Witness ==
    /\ last.op = "send"
    /\ last.message = AlreadyVerified
    /\ HasVerifiedAccount(users, last.email)

\* C3: with a live row for E and no verified account for E,
\* sendVerificationCode(E) returns AlreadyPending, inserts nothing and keeps
\* every live row of E; a second call right after an Issued one, the issued
\* row still being live, returns AlreadyPending.
C3_PendingSuppressed ==
    [][\A e \in Emails, r \in RandomSamples :
          /\ (/\ SendVerificationCode(e, r)
               /\ LiveRowsFor(codes, e, now) # {}
               /\ ~HasVerifiedAccount(users, e))
              => /\ last'.success = FALSE
                 /\ last'.message = AlreadyPending
                 /\ codes' \subseteq codes
                 /\ LiveRowsFor(codes, e, now) \subseteq codes'
                 /\ nextCodeId' = nextCodeId
          /\ (/\ SendVerificationCode(e, r)
               /\ last.op = "send" /\ last.email = e /\ last.message = Issued
               /\ \E c \in NewestRow : c.email = e /\ c.expires_at > now)
              => last'.message = AlreadyPending]_vars

C3_Witness ==
    /\ calls = 2
    /\ users = {}
    /\ last.op = "send"
    /\ last.message = AlreadyPending
    /\ Cardinality(codes) = 1
    /\ LiveRowsFor(codes, last.email, now) = codes

\* C4: sendVerificationCode(E) succeeds, the clock passes the expiry of the
\* issued code, and the next call sendVerificationCode(E) succeeds again;
\* afterwards E has exactly one live row and the expired row is gone.
C4_ReissueAfterExpiry ==
    [][\A e \in Emails, r \in RandomSamples :
          \A old \in NewestRow :
              (/\ SendVerificationCode(e, r)
               /\ last.op = "send" /\ last.email = e /\ last.message = Issued
               /\ old.email = e
               /\ old.expires_at < now)
              => /\ last'.success = TRUE
                 /\ last'.message = Issued
                 /\ Cardinality(LiveRowsFor(codes', e, now)) = 1
                 /\ old \notin codes'
                 /\ \A c \in codes' : c.id # old.id]_vars

C4_Witness ==
    /\ calls = 2
    /\ users = {}
    /\ last.op = "send"
    /\ last.message = Issued
    /\ nextCodeId = 3
    /\ Cardinality(codes) = 1
    /\ \A c \in codes : c.id = 2 /\ c.email = last.email /\ c.expires_at > now

\* C5 as stated: whenever verifyEmail(E, c) returns Verified, the account of E
\* is verified and no verification row for E remains.
C5_NoRowLeftAfterVerified ==
    (last.op = "verify" /\ last.success)
    => /\ HasVerifiedAccount(users, last.email)
       /\ RowsFor(codes, last.email) = {}

\* C5 amended: whenever verifyEmail(E, c) returns Verified, the account of E
\* is verified and exactly one row, a row matching (E, c), has been deleted;
\* every other row, for E or not, is still there.
C5_VerifiedConsumesMatchedRow ==
    [][\A e \in Emails, c \in InputCodes :
          (VerifyEmail(e, c) /\ last'.success)
          => /\ last'.message = Verified
             /\ HasVerifiedAccount(users', e)
             /\ ~HasUnverifiedAccount(users', e)
             /\ \E row \in MatchingRows(codes, e, c) : codes' = codes \ {row}]_vars

\* The registration row, at its exact expiry instant, outlives the consumption
\* of the code issued at that instant.
C5_Witness ==
    /\ last.op = "verify"
    /\ last.success
    /\ HasVerifiedAccount(users, last.email)
    /\ nextCodeId = 3
    /\ \E c \in codes : /\ c.id = 1
                         /\ c.email = last.email
                         /\ c.expires_at = c.created_at + RegisterWindow
                         /\ c.expires_at = now

\* C6: when no row matches both the email and the code, verifyEmail returns
\* InvalidCode and changes neither table.
C6_InvalidCodeChangesNothing ==
    [][\A e \in Emails, c \in InputCodes :
          (VerifyEmail(e, c) /\ MatchingRows(codes, e, c) = {})
          => /\ last'.success = FALSE
             /\ last'.message = InvalidCode
             /\ users' = users
             /\ codes' = codes]_vars

\* A row with the same code exists, but for the differently-cased email.
C6_Witness ==
    /\ last.op = "verify"
    /\ last.message = InvalidCode
    /\ codes # {}
    /\ \E u \in users : ~u.is_email_verified
    /\ \A c \in codes : c.email # last.email

\* C7: when the row matched by (E, c) expired strictly before the current
\* time, verifyEmail returns Expired, deletes that row and changes no account.
C7_ExpiredRowDeleted ==
    [][\A e \in Emails, c \in InputCodes :
          /\ (/\ VerifyEmail(e, c)
               /\ MatchingRows(codes, e, c) # {}
               /\ \A row \in MatchingRows(codes, e, c) : row.expires_at < now)
              => /\ last'.success = FALSE
                 /\ last'.message = Expired
                 /\ users' = users
                 /\ \E row \in MatchingRows(codes, e, c) : codes' = codes \ {row}
          /\ (/\ VerifyEmail(e, c)
               /\ \E row \in codes \ codes' : row.expires_at < now)
              => /\ last'.message = Expired
                 /\ users' = users]_vars

C7_Witness ==
    /\ last.op = "verify"
    /\ last.message = Expired
    /\ HasUnverifiedAccount(users, last.email)
    /\ RowsFor(codes, last.email) = {}

\* C8: when a live row matches (E, c) and no account has email E, verifyEmail
\* returns AccountMissing and changes neither table.
C8_AccountMissingKeepsRow ==
    [][\A e \in Emails, c \in InputCodes :
          (/\ VerifyEmail(e, c)
           /\ MatchingRows(codes, e, c) # {}
           /\ \A row \in MatchingRows(codes, e, c) : row.expires_at > now
           /\ AccountsFor(users, e) = {})
          => /\ last'.success = FALSE
             /\ last'.message = AccountMissing
             /\ users' = users
             /\ codes' = codes]_vars

C8_Witness ==
    /\ last.op = "verify"
    /\ last.message = AccountMissing
    /\ AccountsFor(users, last.email) = {}
    /\ LiveRowsFor(codes, last.email, now) # {}

\* C10: registerUser(E) fails with "already registered" exactly when an
\* account with the very string E exists, and then creates nothing; with no
\* such account (a differently-cased one may exist) it creates an account.
C10_EmailTakenIffExists ==
    [][\A e \in Emails, f \in FirstNames, l \in LastNames, pw \in Passwords,
          ph \in PhoneNumbers, r \in RandomSamples, sh \in SteadyZone :
          RegisterUser(e, f, l, pw, ph, r, sh)
          => /\ (last'.success = FALSE /\ last'.message = EmailTaken)
                    <=> (AccountsFor(users, e) # {})
             /\ (AccountsFor(users, e) # {})
                    => (users' = users /\ codes' = codes)
             /\ (AccountsFor(users, e) = {})
                    => /\ last'.success = TRUE
                       /\ Cardinality(users') = Cardinality(users) + 1
                       /\ Cardinality(AccountsFor(users', e)) = 1]_vars

\* The duplicate is rejected while both casings are registered.
C10_Witness ==
    /\ last.op = "register"
    /\ last.success = FALSE
    /\ last.message = EmailTaken
    /\ \A e \in Emails : AccountsFor(users, e) # {}

\* C11: whenever no account has email E, registerUser(E, ...) succeeds, adds
\* exactly one account (unverified, with a password digest, without an
\* external id) and exactly one new verification row for E that expires after
\* the current time, and returns is_new_user = true with a credential.
C11_RegisterCreatesAccountAndRow ==
    [][\A e \in Emails, f \in FirstNames, l \in LastNames, pw \in Passwords,
          ph \in PhoneNumbers, r \in RandomSamples, sh \in SteadyZone :
          (RegisterUser(e, f, l, pw, ph, r, sh) /\ AccountsFor(users, e) = {})
          => /\ last'.success = TRUE
             /\ last'.is_new_user = TRUE
             /\ last'.token # NoToken
             /\ \E u \in users' \ users :
                   /\ users' = users \cup {u}
                   /\ u.email = e
                   /\ u.is_email_verified = FALSE
                   /\ u.password_hash # NULL
                   /\ u.google_id = NULL
             /\ \E c \in codes' \ codes :
                   /\ codes' = codes \cup {c}
                   /\ c.email = e
                   /\ c.expires_at > now]_vars

\* A registration succeeded for an email whose other casing was already
\* registered: its account is unverified and its row is live.
C11_Witness ==
    /\ last.op = "register"
    /\ last.success = TRUE
    /\ last.is_new_user = TRUE
    /\ Cardinality(users) = 2
    /\ HasUnverifiedAccount(users, last.email)
    /\ NewestRow # {}
    /\ \A c \in NewestRow : c.email = last.email /\ c.expires_at > now

\* C13: every account has a password digest, an external id, or both.
C13_AccountHasCredential ==
    \A u \in users : u.password_hash # NULL \/ u.google_id # NULL

\* A password-only account, and an account created by googleSignIn that has
\* an external id and no password digest, exist together.
C13_Witness ==
    /\ \E u \in users : u.password_hash # NULL /\ u.google_id = NULL
    /\ \E u \in users : u.password_hash = NULL /\ u.google_id # NULL

\* C14: once verifyEmail has returned Verified for E, the account with email
\* E has is_email_verified = true in every later state, whatever calls follow.
C14_VerifiedStaysVerified ==
    \A e \in consumed : HasVerifiedAccount(users, e)

\* C15: googleSignIn(g, E, ...) returns is_new_user = false and leaves the
\* number of accounts unchanged exactly when some account had google_id = g
\* or email = E before the call; otherwise it adds exactly one account with
\* email E, google_id g and no password digest and returns is_new_user = true.
\* Either way the affected account's is_email_verified is the asserted flag,
\* or true when none was asserted.
C15_GoogleUpsert ==
    [][\A g \in GoogleIds, e \in Emails, f \in GoogleFirstNames,
          l \in GoogleLastNames, fl \in AssertedFlags :
          GoogleSignIn(g, e, f, l, fl)
          => LET known == {u \in users : u.google_id = g \/ u.email = e}
                 asserted == (fl # "false")
             IN  /\ (last'.is_new_user = FALSE
                        /\ Cardinality(users') = Cardinality(users))
                       <=> (known # {})
                 /\ (known # {})
                       => \E u \in known, v \in users' :
                             /\ v.id = u.id
                             /\ v.is_email_verified = asserted
                             /\ users' \ {v} = users \ {u}
                 /\ (known = {})
                       => /\ last'.is_new_user = TRUE
                          /\ \E v \in users' \ users :
                                /\ users' = users \cup {v}
                                /\ v.email = e
                                /\ v.google_id = g
                                /\ v.password_hash = NULL
                                /\ v.is_email_verified = asserted]_vars

\* A sign-in asserting email_verified = false found its account by the
\* external id under another email and left it unverified; no account was
\* added.
C15_Witness ==
    /\ last.op = "google"
    /\ last.is_new_user = FALSE
    /\ Cardinality(users) = 1
    /\ AccountsFor(users, last.email) = {}
    /\ \E u \in users : u.google_id # NULL /\ ~u.is_email_verified

\* C17: the account view returned by registerUser and by googleSignIn has no
\* password digest field, for a new account and for an existing one.
C17_NoDigestInView ==
    (last.op \in {"register", "google"} /\ last.success)
        => "password_hash" \notin DOMAIN last.user

\* googleSignIn returned the view of an existing account that has a
\* password digest in the store.
C17_Witness ==
    /\ last.op = "google"
    /\ last.success
    /\ last.is_new_user = FALSE
    /\ \E u \in users : u.id = last.user.id /\ u.password_hash # NULL

\* C20: when the row matching (E, c) has an expiry exactly equal to the
\* current time, verifyEmail(E, c) treats it as expired: it deletes the row
\* and returns Expired without changing any account.
C20_ExpiryInstantIsExpired ==
    [][\A e \in Emails, code \in InputCodes :
          (/\ VerifyEmail(e, code)
           /\ MatchingRows(codes, e, code) # {}
           /\ \A row \in MatchingRows(codes, e, code) : row.expires_at = now)
          => /\ last'.success = FALSE
             /\ last'.message = Expired
             /\ users' = users
             /\ \E row \in MatchingRows(codes, e, code) : codes' = codes \ {row}]_vars

\* C21 as stated: after a sendVerificationCode(E) call that returns success,
\* the table holds exactly one row for E, the newly inserted one, every older
\* row for E having been removed whatever its expiry.
C21_OnlyNewRowAfterIssued ==
    [][\A e \in Emails, r \in RandomSamples :
          (SendVerificationCode(e, r) /\ last'.success)
          => \E c \in codes' \ codes : RowsFor(codes', e) = {c}]_vars

\* C21 amended: after a sendVerificationCode(E) call that returns success,
\* the rows for E are the newly inserted one and the older rows whose expiry
\* is exactly the time of the call; older rows that expired strictly before
\* it have been removed, and no older row was live.
C21_NewRowAndRowsExpiringNow ==
    [][\A e \in Emails, r \in RandomSamples :
          (SendVerificationCode(e, r) /\ last'.success)
          => /\ LiveRowsFor(codes, e, now) = {}
             /\ \E c \in codes' \ codes :
                   RowsFor(codes', e)
                     = {c} \cup {old \in RowsFor(codes, e) : old.expires_at = now}]_vars

\* A send succeeded at the very instant an older row for the email expires:
\* the older row is still stored next to the new one.
C21_Witness ==
    /\ last.op = "send"
    /\ last.success
    /\ Cardinality(RowsFor(codes, last.email)) = 2
    /\ \E old \in RowsFor(codes, last.email) : old.expires_at = now
    /\ \A c \in NewestRow : c.email = last.email /\ c.created_at = now

\* The values Math.floor(Math.random() * 900000) takes, Math.random() being
\* in [0, 1).
RandomRange == 0..899999
\* Six-digit strings: the first and the last of 000000..999999, and 100000.
SixDigitSamples ==
    {<<0, 0, 0, 0, 0, 0>>, <<1, 0, 0, 0, 0, 0>>, <<9, 9, 9, 9, 9, 9>>}
Generable == {code \in SixDigitSamples : \E r \in RandomRange : GenerateCode(r) = code}
IsSixDigits(code) == Len(code) = 6 /\ \A i \in 1..Len(code) : code[i] \in 0..9

\* C24 as stated: every stored code is a string of exactly six decimal
\* digits, and every value from 000000 to 999999 can be generated.
C24_AllSixDigitStrings ==
    /\ \A c \in codes : IsSixDigits(c.verification_code)
    /\ Generable = SixDigitSamples

\* C24 amended: every stored code is a string of exactly six decimal digits
\* whose first digit is not 0, and the values that can be generated are
\* 100000 to 999999: no string with a leading 0 is ever generated.
C24_SixDigitsFromOneHundredThousand ==
    /\ \A c \in codes : /\ IsSixDigits(c.verification_code)
                        /\ c.verification_code[1] # 0
    /\ Generable = {code \in SixDigitSamples : code[1] # 0}

\* The smallest and the largest code are both stored.
C24_Witness ==
    /\ \E c \in codes : c.verification_code = <<1, 0, 0, 0, 0, 0>>
    /\ \E c \in codes : c.verification_code = <<9, 9, 9, 9, 9, 9>>

\* C25: a pending code never blocks reissuance forever: for an email E with
\* no verified account (an unverified account or none), once the clock is
\* strictly past the expiry of every row for E, sendVerificationCode(E)
\* returns Issued.
C25_IssuedOnceAllRowsExpired ==
    [][\A e \in Emails, r \in RandomSamples :
          (/\ SendVerificationCode(e, r)
           /\ ~HasVerifiedAccount(users, e)
           /\ \A c \in RowsFor(codes, e) : c.expires_at < now)
          => /\ last'.success = TRUE
             /\ last'.message = Issued
             /\ LiveRowsFor(codes', e, now) # {}]_vars

\* The registration code of an unverified account ran out unused and a new
\* code was issued for the account.
C25_Witness ==
    /\ last.op = "send"
    /\ last.message = Issued
    /\ HasUnverifiedAccount(users, last.email)
    /\ now > RegisterWindow
    /\ Cardinality(RowsFor(codes, last.email)) = 1
    /\ \A c \in RowsFor(codes, last.email) : c.created_at = now

\* C26: googleSignIn never creates, deletes or changes a verification row;
\* when it updates an existing account, that account keeps its email,
\* password digest, phone number and creation time, and every other account
\* is unchanged.
C26_GoogleSignInFrame ==
    [][\A g \in GoogleIds, e \in Emails, f \in GoogleFirstNames,
          l \in GoogleLastNames, fl \in AssertedFlags :
          GoogleSignIn(g, e, f, l, fl)
          => /\ codes' = codes
             /\ (last'.is_new_user = FALSE)
                   => \E u \in users, v \in users' :
                         /\ v.id = u.id
                         /\ users' \ {v} = users \ {u}
                         /\ v.email = u.email
                         /\ v.password_hash = u.password_hash
                         /\ v.phone_number = u.phone_number
                         /\ v.created_at = u.created_at]_vars

\* A sign-in found a registered password account by its email and changed
\* its names and external id; the digest and the registration code are
\* still stored, and the other account is as it was.
C26_Witness ==
    /\ last.op = "google"
    /\ last.is_new_user = FALSE
    /\ Cardinality(users) = 2
    /\ RowsFor(codes, last.email) # {}
    /\ \E u \in users : /\ u.id = last.user.id
                        /\ u.email = last.email
                        /\ u.password_hash # NULL
                        /\ u.google_id # NULL
                        /\ u.first_name \in GoogleFirstNames
                        /\ u.updated_at > u.created_at

\* C27: emails are handled independently: sendVerificationCode(E), whatever
\* it returns, leaves the accounts as they are and neither creates, deletes
\* nor changes a verification row whose email string differs from E.
C27_SendTouchesOnlyItsEmail ==
    [][\A e \in Emails, r \in RandomSamples :
          SendVerificationCode(e, r)
          => /\ users' = users
             /\ {c \in codes' : c.email # e} = {c \in codes : c.email # e}]_vars

\* A send swept the expired row of its own email and issued a new code,
\* while the expired row of the differently-cased email is still stored.
C27_Witness ==
    /\ last.op = "send"
    /\ last.message = Issued
    /\ nextCodeId = 4
    /\ Cardinality(RowsFor(codes, last.email)) = 1
    /\ \E c \in codes : c.email # last.email /\ c.expires_at < now

\* C28 as stated: in every state reached by whole calls, no live
\* verification row exists for an email whose account is verified.
C28_NoLiveRowForVerified ==
    \A e \in Emails : HasVerifiedAccount(users, e) => LiveRowsFor(codes, e, now) = {}

\* C28 amended: no call inserts a verification row for an email whose
\* account is verified at the time of the call; a live row of a verified
\* account is one that was inserted before the account became verified.
C28_NoRowInsertedForVerified ==
    [][\A c \in codes' \ codes : ~HasVerifiedAccount(users, c.email)]_vars

\* A code was issued before the account existed, googleSignIn created the
\* account as verified, and a further send was refused: the earlier row is
\* still live.
C28_Witness ==
    /\ last.op = "send"
    /\ last.message = AlreadyVerified
    /\ HasVerifiedAccount(users, last.email)
    /\ LiveRowsFor(codes, last.email, now) # {}
    /\ \A u \in users : u.password_hash = NULL

\* C29: in every state reached by registerUser and googleSignIn calls, no
\* two accounts have the same non-null google_id, also when a sign-in's
\* google_id matches one account and its email matches another.
C29_GoogleIdsUnique ==
    \A u \in users, v \in users :
        (u.google_id # NULL /\ u.google_id = v.google_id) => u = v

Next ==
    \/ Tick
    \/ \E e \in Emails, r \in RandomSamples : SendVerificationCode(e, r)
    \/ \E e \in Emails, c \in InputCodes : VerifyEmail(e, c)
    \/ \E e \in Emails, f \in FirstNames, l \in LastNames, pw \in Passwords,
          ph \in PhoneNumbers, r \in RandomSamples, sh \in SteadyZone :
            RegisterUser(e, f, l, pw, ph, r, sh)
    \/ \E g \in GoogleIds, e \in Emails, f \in GoogleFirstNames, l \in GoogleLastNames,
          fl \in AssertedFlags : GoogleSignIn(g, e, f, l, fl)

Spec == Init /\ [][Next]_vars

(***************************************************************************)
(* SpecSeq: sequences of up to MaxSeqCalls whole calls about one email,    *)
(* with the clock sampled at the instant a 15-minute code expires.  The    *)
(* calls are those of Spec; calls starts below zero so that MaxSeqCalls    *)
(* of them pass the guard calls < MaxCalls.                                *)
(***************************************************************************)
SeqEmails == {"a@x.com"}
SeqInstants == {0, SendWindow, SendWindow + 1}
SeqCodes == GeneratedCodes

InitSeq ==
    /\ users = {}
    /\ codes = {}
    /\ nextUserId = 1
    /\ nextCodeId = 1
    /\ now = 0
    /\ calls = MaxCalls - MaxSeqCalls
    /\ last = NoCall
    /\ consumed = {}
    /\ spent = {}
    /\ pc = [p \in Procs |-> "idle"]
    /\ loc = [p \in Procs |-> IdleLoc]

\* The clock advances between calls.
TickSeq ==
    /\ \E t \in SeqInstants : t > now /\ now' = t
    /\ UNCHANGED <<users, codes, nextUserId, nextCodeId, calls, last, consumed, spent, pc, loc>>

NextSeq ==
    \/ TickSeq
    \/ \E e \in SeqEmails, r \in RandomSamples : SendVerificationCode(e, r)
    \/ \E e \in SeqEmails, c \in SeqCodes : VerifyEmail(e, c)
    \/ \E e \in SeqEmails, f \in FirstNames, l \in LastNames, pw \in Passwords,
          ph \in PhoneNumbers, r \in RandomSamples, sh \in ZoneShifts :
            RegisterUser(e, f, l, pw, ph, r, sh)
    \/ \E g \in GoogleIds, e \in SeqEmails, f \in GoogleFirstNames,
          l \in GoogleLastNames, fl \in AssertedFlags : GoogleSignIn(g, e, f, l, fl)

SpecSeq == InitSeq /\ [][NextSeq]_vars

\* C23: the row inserted by sendVerificationCode expires 15 minutes after
\* the time of the call and the row inserted by registerUser 24 hours after
\* the time of the call; no operation inserts a row with another window.
C23_Windows ==
    [][\A c \in codes' \ codes :
          \/ last'.op = "send" /\ c.expires_at = now + 15
          \/ last'.op = "register" /\ c.expires_at = now + 24 * 60]_vars

\* C22 as stated: a code is single-use: after verifyEmail(E, c) has returned
\* Verified, a following verifyEmail(E, c), with no sendVerificationCode(E)
\* or registerUser(E) in between, returns InvalidCode.
C22_SingleUse ==
    [][\A e \in SeqEmails, c \in SeqCodes :
          (VerifyEmail(e, c) /\ <<e, c>> \in spent)
          => last'.message = InvalidCode]_vars

\* C22 amended: a verifyEmail(E, c) that returns Verified deletes exactly one
\* row matching (E, c); a following verifyEmail(E, c), with no send or
\* registration for E in between, returns InvalidCode exactly when no other
\* row for E carries the code c.
C22_ConsumedRowIsSingleUse ==
    [][\A e \in SeqEmails, c \in SeqCodes :
          /\ (VerifyEmail(e, c) /\ last'.message = Verified)
                => \E row \in MatchingRows(codes, e, c) : codes' = codes \ {row}
          /\ (VerifyEmail(e, c) /\ <<e, c>> \in spent)
                => (last'.message = InvalidCode
                      <=> MatchingRows(codes, e, c) = {})]_vars

\* The code was consumed, no second row carried it, and the repeated
\* verifyEmail was answered InvalidCode although another code for the email
\* is stored.
C22_Witness ==
    /\ last.op = "verify"
    /\ last.message = InvalidCode
    /\ \E x \in spent : x[1] = last.email /\ MatchingRows(codes, x[1], x[2]) = {}
    /\ RowsFor(codes, last.email) # {}
    /\ HasVerifiedAccount(users, last.email)

(***************************************************************************)
(* SpecAvail: sign-ups and sign-ins create accounts under addresses given  *)
(* as character sequences, and checkEmailAvailability is asked about them. *)
(***************************************************************************)
\* The clock advances between calls.
TickAvail ==
    /\ \E t \in ConcInstants : t > now /\ now' = t
    /\ UNCHANGED <<users, codes, nextUserId, nextCodeId, calls, last, consumed, spent, pc, loc>>

NextAvail ==
    \/ TickAvail
    \/ \E e \in AvailEmails, f \in FirstNames, l \in LastNames, pw \in Passwords,
          ph \in PhoneNumbers, r \in ConcRandomSamples, sh \in SteadyZone :
            RegisterUser(e, f, l, pw, ph, r, sh)
    \/ \E g \in GoogleIds, e \in AvailEmails, f \in GoogleFirstNames,
          l \in GoogleLastNames, fl \in AssertedFlags : GoogleSignIn(g, e, f, l, fl)
    \/ \E e \in AvailEmails, y \in Years : CheckEmailAvailability(e, y)

SpecAvail == Init /\ [][NextAvail]_vars

\* The part of an address before its last "@", and the part after it.
LastAt(e) == CHOOSE i \in 1..Len(e) : e[i] = "@" /\ \A j \in (i + 1)..Len(e) : e[j] # "@"
BeforeLastAt(e) == SubSeq(e, 1, LastAt(e) - 1)
AfterLastAt(e) == SubSeq(e, LastAt(e) + 1, Len(e))
YearText(y) ==
    CASE y = 2025 -> <<"2", "0", "2", "5">>
      [] y = 2026 -> <<"2", "0", "2", "6">>

\* C16: checkEmailAvailability(E) returns available = true and no suggestions
\* exactly when no account has the string E; otherwise it returns
\* available = false and the five suggestions local.YEAR@domain,
\* local_YEAR@domain, local.user@domain, local123@domain and
\* local_official@domain in that order, local and domain being the parts of
\* E before and after its last "@" and YEAR the current calendar year; the
\* list is a function of the input and the year.
C16_AvailabilityAndSuggestions ==
    [][\A e \in AvailEmails, y \in Years :
          CheckEmailAvailability(e, y)
          => LET local == BeforeLastAt(e)
                 domain == AfterLastAt(e)
             IN  /\ (last'.available = TRUE /\ "suggestions" \notin DOMAIN last')
                       <=> (AccountsFor(users, e) = {})
                 /\ (AccountsFor(users, e) # {})
                       => /\ last'.available = FALSE
                          /\ last'.suggestions =
                               <<local \o <<".">> \o YearText(y) \o <<"@">> \o domain,
                                 local \o <<"_">> \o YearText(y) \o <<"@">> \o domain,
                                 local \o <<".", "u", "s", "e", "r", "@">> \o domain,
                                 local \o <<"1", "2", "3", "@">> \o domain,
                                 local \o <<"_", "o", "f", "f", "i", "c", "i", "a", "l", "@">>
                                       \o domain>>]_vars

\* "j.o@m.x.io" is registered and the check returned its five suggestions.
C16_Witness ==
    /\ last.op = "check"
    /\ last.available = FALSE
    /\ \E u \in users : u.email = <<"j", ".", "o", "@", "m", ".", "x", ".", "i", "o">>
    /\ last.suggestions[2] =
          <<"j", ".", "o", "_", "2", "0", "2", "6", "@", "m", ".", "x", ".", "i", "o">>
    /\ last.suggestions[4] =
          <<"j", ".", "o", "1", "2", "3", "@", "m", ".", "x", ".", "i", "o">>

(***************************************************************************)
(* SpecConc: the handlers interleave at their store round-trips.  A step   *)
(* is one statement executing in the store followed by the handler's       *)
(* synchronous code up to its next await or its return.  A finished        *)
(* request leaves its response, and a record of what it did, in loc.       *)
(***************************************************************************)
UniqueViolation == "duplicate key value violates unique constraint \"users_email_unique\""

\* The clock advances while requests are in flight.
TickConc ==
    /\ \E t \in ConcInstants : t > now /\ now' = t
    /\ UNCHANGED <<users, codes, nextUserId, nextCodeId, calls, last, consumed, spent, pc, loc>>

Arrive(p) ==
    /\ pc[p] = "idle"
    /\ calls < MaxRequests
    /\ calls' = calls + 1

Goto(p, label, locals) ==
    /\ pc' = [pc EXCEPT ![p] = label]
    /\ loc' = [loc EXCEPT ![p] = locals]

Return(p, success, message) ==
    /\ pc' = [pc EXCEPT ![p] = "idle"]
    /\ loc' = [loc EXCEPT ![p] = [loc[p] EXCEPT !.success = success,
                                                !.message = message,
                                                !.returned = TRUE]]

\* sendVerificationCode: select users; const now = new Date()
SendSelectUsers(p, email) ==
    LET existingUsers == SelectUsersByEmail(users, email)
        locals == [op |-> "send", email |-> email, now |-> now, code |-> <<>>,
                   expiresAt |-> 0, success |-> FALSE, message |-> NoMessage,
                   returned |-> FALSE]
    IN  /\ Arrive(p)
        /\ IF RegisteredAndVerified(existingUsers)
           THEN Goto(p, "idle", [locals EXCEPT !.message = AlreadyVerified,
                                               !.returned = TRUE])
           ELSE Goto(p, "send_delete", locals)
        /\ spent' = {x \in spent : x[1] # email}
        /\ UNCHANGED <<users, codes, nextUserId, nextCodeId, now, last, consumed>>

\* sendVerificationCode: delete the expired rows
SendDeleteExpired(p) ==
    /\ pc[p] = "send_delete"
    /\ codes' = DeleteExpiredCodes(codes, loc[p].email, loc[p].now)
    /\ Goto(p, "send_select", loc[p])
    /\ UNCHANGED <<users, nextUserId, nextCodeId, now, calls, last, consumed, spent>>

\* sendVerificationCode: select the live rows; generate the code and expiry
SendSelectLive(p) ==
    LET existingCodes == SelectLiveCodes(codes, loc[p].email, loc[p].now)
    IN  /\ pc[p] = "send_select"
        /\ IF existingCodes # {}
           THEN Return(p, FALSE, AlreadyPending)
           ELSE \E r \in ConcRandomSamples :
                    Goto(p, "send_insert",
                         [loc[p] EXCEPT !.code = GenerateCode(r),
                                        !.expiresAt = now + SendWindow])
        /\ UNCHANGED <<users, codes, nextUserId, nextCodeId, now, calls, last, consumed, spent>>

\* sendVerificationCode: insert the row
SendInsert(p) ==
    /\ pc[p] = "send_insert"
    /\ codes' = InsertCode(codes, nextCodeId, loc[p].email, loc[p].code,
                           loc[p].expiresAt, now)
    /\ nextCodeId' = nextCodeId + 1
    /\ Return(p, TRUE, Issued)
    /\ UNCHANGED <<users, nextUserId, now, calls, last, consumed, spent>>

\* verifyEmail: select the matching rows; const now = new Date(); expiry check
VerifySelect(p, email, code) ==
    LET verificationRecords == SelectCodes(codes, email, code)
        locals == [op |-> "verify", email |-> email, code |-> code, now |-> now,
                   record |-> 0, expires_at |-> 0, expired |-> FALSE,
                   rowCount |-> -1, written |-> 0, deleted |-> "nothing",
                   success |-> FALSE, message |-> NoMessage, returned |-> FALSE]
    IN  /\ Arrive(p)
        /\ \/ /\ verificationRecords = {}
              /\ Goto(p, "idle", [locals EXCEPT !.message = InvalidCode,
                                                 !.returned = TRUE])
           \/ \E verificationRecord \in verificationRecords :
                 LET found == [locals EXCEPT
                                 !.record = verificationRecord.id,
                                 !.expires_at = verificationRecord.expires_at,
                                 !.expired = (verificationRecord.expires_at < now)]
                 IN  IF IsExpired(verificationRecord, now)
                     THEN Goto(p, "verify_delete_expired", found)
                     ELSE Goto(p, "verify_update", found)
        /\ UNCHANGED <<users, codes, nextUserId, nextCodeId, now, last, consumed, spent>>

\* verifyEmail: delete the expired row; return Expired
VerifyDeleteExpired(p) ==
    /\ pc[p] = "verify_delete_expired"
    /\ codes' = DeleteCodeById(codes, loc[p].record)
    /\ pc' = [pc EXCEPT ![p] = "idle"]
    /\ loc' = [loc EXCEPT ![p] = [loc[p] EXCEPT !.deleted = "expired",
                                                !.message = Expired,
                                                !.returned = TRUE]]
    /\ UNCHANGED <<users, nextUserId, nextCodeId, now, calls, last, consumed, spent>>

\* Mutant: the row is deleted whatever the affected-row count was.
AfterUpdate_AlwaysDelete(rowCount) == "verify_delete"

\* Where verifyEmail goes after the update: if (updateResult.rowCount === 0)
AfterUpdate(rowCount) ==
    IF rowCount = 0 THEN "idle" ELSE "verify_delete"

\* verifyEmail: update the account; check the affected-row count
VerifyUpdate(p) ==
    LET rowCount == RowCount(users, loc[p].email)
        updated == [loc[p] EXCEPT
                      !.rowCount = rowCount,
                      !.written = Cardinality({u \in users : u.email = loc[p].email})]
    IN  /\ pc[p] = "verify_update"
        /\ users' = UpdateUserVerified(users, loc[p].email, loc[p].now)
        /\ pc' = [pc EXCEPT ![p] = AfterUpdate(rowCount)]
        /\ loc' = [loc EXCEPT ![p] =
                      IF AfterUpdate(rowCount) = "idle"
                      THEN [updated EXCEPT !.message = AccountMissing,
                                           !.returned = TRUE]
                      ELSE updated]
        /\ UNCHANGED <<codes, nextUserId, nextCodeId, now, calls, last, consumed, spent>>

\* verifyEmail: delete the consumed row; return Verified
VerifyDelete(p) ==
    /\ pc[p] = "verify_delete"
    /\ codes' = DeleteCodeById(codes, loc[p].record)
    /\ pc' = [pc EXCEPT ![p] = "idle"]
    /\ loc' = [loc EXCEPT ![p] = [loc[p] EXCEPT !.deleted = "consumed",
                                                !.success = TRUE,
                                                !.message = Verified,
                                                !.returned = TRUE]]
    /\ consumed' = consumed \cup {loc[p].email}
    /\ spent' = spent \cup {<<loc[p].email, loc[p].code>>}
    /\ UNCHANGED <<users, nextUserId, nextCodeId, now, calls, last>>

\* registerUser: select users by email; throw when one exists
RegisterSelectUsers(p, email, first, lastn, password, phone) ==
    LET existingUsers == SelectUsersByEmail(users, email)
        locals == [op |-> "register", email |-> email, first_name |-> first,
                   last_name |-> lastn, password |-> password,
                   phone_number |-> phone, code |-> <<>>, expiresAt |-> 0,
                   user |-> 0, success |-> FALSE, message |-> NoMessage,
                   returned |-> FALSE]
    IN  /\ Arrive(p)
        /\ IF existingUsers # {}
           THEN Goto(p, "idle", [locals EXCEPT !.message = EmailTaken,
                                               !.returned = TRUE])
           ELSE Goto(p, "register_insert_user", locals)
        /\ spent' = {x \in spent : x[1] # email}
        /\ UNCHANGED <<users, codes, nextUserId, nextCodeId, now, last, consumed>>

\* registerUser: insert the account (users.email is unique: a duplicate makes
\* the insert throw, the serial being consumed all the same); generate the
\* code and its expiry
RegisterInsertUser(p) ==
    /\ pc[p] = "register_insert_user"
    /\ nextUserId' = nextUserId + 1
    /\ IF ViolatesUniqueEmail(users, loc[p].email)
       THEN /\ UNCHANGED users
            /\ Return(p, FALSE, UniqueViolation)
       ELSE /\ users' = users \cup
                    {NewPasswordUser(nextUserId, loc[p].email, loc[p].first_name,
                                     loc[p].last_name, loc[p].password,
                                     loc[p].phone_number, now)}
            /\ \E r \in ConcRandomSamples, shift \in SteadyZone :
                   Goto(p, "register_insert_code",
                        [loc[p] EXCEPT !.user = nextUserId,
                                       !.code = GenerateCode(r),
                                       !.expiresAt = SetHoursPlus24(now, shift)])
    /\ UNCHANGED <<codes, nextCodeId, now, calls, last, consumed, spent>>

\* registerUser: insert the verification row; return the AuthResponse
RegisterInsertCode(p) ==
    /\ pc[p] = "register_insert_code"
    /\ codes' = InsertCode(codes, nextCodeId, loc[p].email, loc[p].code,
                           loc[p].expiresAt, now)
    /\ nextCodeId' = nextCodeId + 1
    /\ Return(p, TRUE, NoMessage)
    /\ UNCHANGED <<users, nextUserId, now, calls, last, consumed, spent>>

\* googleSignIn: select users by google_id or email
GoogleSelectUsers(p, gid, email, first, lastn, flag) ==
    LET existingUsers == SelectUsersByGoogleIdOrEmail(users, gid, email)
        locals == [op |-> "google", email |-> email, google_id |-> gid,
                   first_name |-> first, last_name |-> lastn,
                   email_verified |-> AssertedOrTrue(flag), now |-> now,
                   user |-> 0, is_new_user |-> FALSE,
                   success |-> FALSE, message |-> NoMessage, returned |-> FALSE]
    IN  /\ Arrive(p)
        /\ IF existingUsers # {}
           THEN \E existingUser \in existingUsers :
                    Goto(p, "google_update", [locals EXCEPT !.user = existingUser.id])
           ELSE Goto(p, "google_insert", locals)
        /\ UNCHANGED <<users, codes, nextUserId, nextCodeId, now, last, consumed, spent>>

\* googleSignIn: update the existing account; return the AuthResponse
GoogleUpdate(p) ==
    /\ pc[p] = "google_update"
    /\ users' = UpdateGoogleUser(users, loc[p].user, loc[p].google_id,
                                 loc[p].first_name, loc[p].last_name,
                                 loc[p].email_verified, loc[p].now)
    /\ Return(p, TRUE, NoMessage)
    /\ UNCHANGED <<codes, nextUserId, nextCodeId, now, calls, last, consumed, spent>>

\* googleSignIn: insert the new account; return the AuthResponse
GoogleInsert(p) ==
    /\ pc[p] = "google_insert"
    /\ nextUserId' = nextUserId + 1
    /\ IF ViolatesUniqueEmail(users, loc[p].email)
       THEN /\ UNCHANGED users
            /\ Return(p, FALSE, UniqueViolation)
       ELSE /\ users' = users \cup
                    {NewGoogleUser(nextUserId, loc[p].email, loc[p].first_name,
                                   loc[p].last_name, loc[p].google_id,
                                   loc[p].email_verified, now)}
            /\ pc' = [pc EXCEPT ![p] = "idle"]
            /\ loc' = [loc EXCEPT ![p] = [loc[p] EXCEPT !.user = nextUserId,
                                                        !.is_new_user = TRUE,
                                                        !.success = TRUE,
                                                        !.returned = TRUE]]
    /\ UNCHANGED <<codes, nextCodeId, now, calls, last, consumed, spent>>

NextConc ==
    \/ TickConc
    \/ \E p \in Procs :
          \/ \E e \in ConcEmails : SendSelectUsers(p, e)
          \/ SendDeleteExpired(p)
          \/ SendSelectLive(p)
          \/ SendInsert(p)
          \/ \E e \in ConcEmails, c \in ConcCodes : VerifySelect(p, e, c)
          \/ VerifyDeleteExpired(p)
          \/ VerifyUpdate(p)
          \/ VerifyDelete(p)
          \/ \E e \in ConcEmails, f \in FirstNames, l \in LastNames,
                pw \in Passwords, ph \in PhoneNumbers :
                  RegisterSelectUsers(p, e, f, l, pw, ph)
          \/ RegisterInsertUser(p)
          \/ RegisterInsertCode(p)
          \/ \E g \in GoogleIds, e \in ConcEmails, f \in GoogleFirstNames,
                l \in GoogleLastNames, fl \in ConcFlags :
                  GoogleSelectUsers(p, g, e, f, l, fl)
          \/ GoogleUpdate(p)
          \/ GoogleInsert(p)

SpecConc == Init /\ [][NextConc]_vars
\* C9: in every verifyEmail call, under any interleaving, the lookup and the
\* expiry check precede the account update; a call that returns InvalidCode,
\* Expired or AccountMissing has written no account; and a call deletes a
\* row it found non-expired only after its own update affected some account.
C9_ChecksThenWriteThenDelete ==
    \A p \in Procs :
        loc[p].op = "verify"
        => /\ (loc[p].rowCount >= 0 \/ loc[p].written > 0)
                => (loc[p].record # 0 /\ ~loc[p].expired)
           /\ (loc[p].returned
                /\ loc[p].message \in {InvalidCode, Expired, AccountMissing})
                => (loc[p].written = 0 /\ ~loc[p].success)
           /\ (loc[p].deleted # "nothing" /\ ~loc[p].expired)
                => (loc[p].written > 0 /\ loc[p].rowCount > 0)
           /\ (loc[p].deleted = "expired") => loc[p].expired

\* One request has consumed the code while a second one, which found the
\* same row, is still between its lookup and its update.
C9_Witness ==
    \E p, q \in Procs :
        /\ p # q
        /\ loc[p].op = "verify" /\ loc[p].returned /\ loc[p].message = Verified
        /\ loc[p].deleted = "consumed" /\ loc[p].written > 0
        /\ loc[q].op = "verify" /\ pc[q] = "verify_update"
        /\ loc[q].record = loc[p].record

\* C12: in every reachable state, including those reached by interleaved
\* registerUser and googleSignIn calls, no two accounts have the same email
\* string.
C12_EmailsUnique ==
    \A u \in users, v \in users : u.email = v.email => u = v

\* Two requests both found the email unregistered; one inserted the account
\* and the insert of the other was rejected by the store.
C12_Witness ==
    /\ Cardinality(users) = 1
    /\ \E p \in Procs :
          /\ loc[p].op \in {"register", "google"}
          /\ loc[p].returned
          /\ loc[p].message = UniqueViolation
          /\ \E u \in users : u.email = loc[p].email

\* C18: two sendVerificationCode calls for one unverified email can both pass
\* the live-code check before either inserts; nothing is checked again at the
\* insert, so each of them adds its row, with the expiry it computed on
\* passing the check, and returns Issued, and a state with two live codes for
\* the email is reached.
C18_PassedCheckThenIssues ==
    [][\A p \in Procs :
          SendInsert(p)
          => /\ loc'[p].returned /\ loc'[p].success /\ loc'[p].message = Issued
             /\ \A q \in Procs \ {p} : pc'[q] = pc[q]
             /\ \E c \in codes' \ codes :
                   /\ codes' = codes \cup {c}
                   /\ c.email = loc[p].email
                   /\ c.expires_at = loc[p].expiresAt]_vars

\* Both requests were sendVerificationCode for the same email, both returned
\* Issued, and their two rows are live together.
C18_Witness ==
    /\ \A p \in Procs : /\ loc[p].op = "send"
                        /\ loc[p].returned
                        /\ loc[p].message = Issued
    /\ loc[1].email = loc[2].email
    /\ HasUnverifiedAccount(users, loc[1].email)
    /\ Cardinality(codes) = 2
    /\ Cardinality(LiveRowsFor(codes, loc[1].email, now)) = 2
    /\ \A c \in codes : c.expires_at = c.created_at + SendWindow

\* C19: when two verifyEmail calls with the same valid (E, c) both pass the
\* lookup before either deletes, both update the account, the delete of the
\* second removes nothing and still returns Verified, and the outcome is that
\* of one successful consumption: account E verified, matched row absent.
C19_SecondConsumeIsNoOp ==
    [][\A p \in Procs, q \in Procs :
          (/\ p # q
           /\ VerifyDelete(p)
           /\ loc[q].op = "verify" /\ loc[q].returned
           /\ loc[q].message = Verified
           /\ loc[q].record = loc[p].record)
          => /\ loc[p].written > 0 /\ loc[q].written > 0
             /\ codes' = codes
             /\ loc'[p].returned /\ loc'[p].success
             /\ loc'[p].message = Verified
             /\ \A c \in codes' : c.id # loc[p].record
             /\ users' = users
             /\ HasVerifiedAccount(users', loc[p].email)]_vars

\* Both requests found the same row, both updated the account and both
\* returned Verified; the account is verified and the row is gone.
C19_Witness ==
    /\ \A p \in Procs : /\ loc[p].op = "verify"
                        /\ loc[p].returned
                        /\ loc[p].success
                        /\ loc[p].message = Verified
                        /\ loc[p].written > 0
                        /\ loc[p].deleted = "consumed"
    /\ loc[1].record = loc[2].record
    /\ loc[1].email = loc[2].email
    /\ HasVerifiedAccount(users, loc[1].email)
    /\ \A c \in codes : c.id # loc[1].record

\* C30: when two registerUser calls for the same email interleave at store
\* round-trips, exactly one of them creates an account and returns success
\* and the other fails with an error; afterwards exactly one account has the
\* email and exactly one verification row was inserted by registration for it.
C30_OneRegistrationWins ==
    [][\A p \in Procs, q \in Procs :
          (/\ p # q
           /\ loc[p].op = "register" /\ loc[q].op = "register"
           /\ loc[p].email = loc[q].email)
          => /\ (RegisterInsertUser(p) /\ pc[q] = "register_insert_user")
                   => /\ pc'[p] = "register_insert_code"
                      /\ Cardinality(users') = Cardinality(users) + 1
                      /\ Cardinality(AccountsFor(users', loc[p].email)) = 1
             /\ (RegisterInsertUser(p) /\ loc[q].user # 0)
                   => /\ loc'[p].returned /\ ~loc'[p].success
                      /\ loc'[p].message = UniqueViolation
                      /\ users' = users
                      /\ codes' = codes
             /\ (RegisterInsertCode(p) /\ loc[q].returned)
                   => /\ loc'[p].returned /\ loc'[p].success
                      /\ ~loc[q].success
                      /\ Cardinality(AccountsFor(users', loc[p].email)) = 1
                      /\ \E c \in codes' \ codes :
                            /\ codes' = codes \cup {c}
                            /\ c.email = loc[p].email]_vars

\* Both requests found the email free; one created the account and its
\* verification row and succeeded, the other was rejected by the store.
C30_Witness ==
    \E p \in Procs, q \in Procs :
        /\ loc[p].op = "register" /\ loc[p].returned /\ loc[p].success
        /\ loc[q].op = "register" /\ loc[q].returned /\ ~loc[q].success
        /\ loc[q].message = UniqueViolation
        /\ loc[p].email = loc[q].email
        /\ Cardinality(AccountsFor(users, loc[p].email)) = 1
        /\ Cardinality(codes) = 1
        /\ nextCodeId = 2
        /\ \A c \in codes : c.email = loc[p].email /\ c.expires_at = loc[p].expiresAt

====
